---- MODULE Spec2Model ----
(***************************************************************************)
(* CodeAssist backend (src/backend/main.py, src/backend/database.py).      *)
(*                                                                         *)
(* The server is one asyncio event loop.  A handler runs without           *)
(* interruption from one await to the next; a database statement is        *)
(* executed atomically by PostgreSQL at some point after the handler sent  *)
(* it and before the handler is resumed.  Each action below is therefore   *)
(* either one statement executed by the database together with the         *)
(* handler's purely local reaction to its result, or one block of          *)
(* synchronous code (clock reads, disk operations) between two awaits.     *)
(* Timestamps are read by the handler (DatabaseManager._now) before the    *)
(* statement that carries them is executed.                                *)
(*                                                                         *)
(* Modelling choices: every read of the clock returns a later time than    *)
(* the one before it; uuid4 values never collide; paths follow POSIX       *)
(* (pathlib.PurePosixPath, "/" the only separator); a statement of         *)
(* add_message may fail with a storage error; cancellation of a handler    *)
(* task is not modelled.                                                   *)
(*                                                                         *)
(* Specifications: SpecReg (registration), Spec (every session-scoped      *)
(* endpoint, the owner beside unauthorised callers), SpecChat (chat        *)
(* streams beside the deletion of their session), SpecFiles (uploads, file *)
(* removals, session deletion), SpecName (an upload of any filename beside *)
(* the deletion of its session), SpecDal (direct data-access calls).       *)
(***************************************************************************)
EXTENDS Integers, Sequences, FiniteSets, TLC

\* ---------------------------------------------------------------- bounds
RegReqs == 3        \* concurrent POST /auth/register requests
AuthReqs == 2       \* concurrent requests, one by the owner and the rest unauthorised
ChatReqs == 1       \* concurrent chat requests by the owner, beside one delete-session
FileReqs == 2       \* concurrent upload / delete-file / delete-session requests by the owner
DalReqs == 2        \* concurrent data-access calls
MaxChunks == 2      \* token chunks one agent run may produce
MaxNameLen == 4     \* characters of a client-supplied upload filename

\* ------------------------------------------------------------- universes
Max(a, b) == IF a >= b THEN a ELSE b
Reqs == 1..Max(Max(RegReqs, AuthReqs), Max(Max(ChatReqs + 1, FileReqs), DalReqs))
DeleteSlot == Cardinality(Reqs)
NoUser == 0
InitUsers == { [id |-> 1, username |-> "alice", api_key |-> 101],
               [id |-> 2, username |-> "bob",   api_key |-> 102] }
Usernames == {"alice", "carol", "dave"}
BadKey == 999
NoSuchSession == "s4"
InitSessions == { [id |-> "s1", user_id |-> 1, created_at |-> 1, updated_at |-> 1],
                  [id |-> "s2", user_id |-> 2, created_at |-> 2, updated_at |-> 2],
                  [id |-> "s3", user_id |-> 1, created_at |-> 3, updated_at |-> 3] }
InitClock == 3
Chars == {"/", ".", "a"}
Filenames == UNION { [1..k -> Chars] : k \in 0..MaxNameLen }
UploadNames == { <<"a">>, <<".", "/", "a">>, <<"a", "a">> }
Chunks == { <<"x">>, <<"y", "z">> }
UserText == <<"h">>

VARIABLES users,          \* table users
          sessions,       \* table sessions
          messages,       \* table messages
          session_files,  \* table session_files
          disk,           \* regular files on disk, as resolved paths
          dirs,           \* session ids whose upload directory exists
          clock,          \* the wall clock read by _now()
          req             \* per request: handler position, locals, response

vars == <<users, sessions, messages, session_files, disk, dirs, clock, req>>

\* ------------------------------------------------------- request records
\* kind, pc: the handler and its position; key, sid, fname, uname: the
\* request's arguments; user, stamp, role, content, full, chunks, safe, path:
\* the handler's locals; status, events: the response so far.  created, asst,
\* saved and wrote record what the request has done: users created, assistant
\* rows inserted, the content of the inserted assistant row, paths written.
Idle == [kind |-> "idle", pc |-> "idle", key |-> 0, sid |-> "", fname |-> <<>>,
         uname |-> "", user |-> NoUser, status |-> 0, stamp |-> 0,
         role |-> "", content |-> <<>>, events |-> <<>>, full |-> <<>>,
         chunks |-> 0, safe |-> <<>>, path |-> <<>>,
         created |-> 0, asst |-> 0, saved |-> <<>>, wrote |-> {}]

Answer(q, code) == [q EXCEPT !.pc = "done", !.status = code]
InFlight(r) == req[r].pc \notin {"idle", "done"}

\* --------------------------------------------------------------- pathlib
Last(s) == s[Len(s)]
Front(s) == SubSeq(s, 1, Len(s) - 1)

\* str.split("/") of a name given as a sequence of characters.
RECURSIVE Components(_)
Components(s) ==
    IF s = <<>> THEN << <<>> >>
    ELSE LET rest == Components(Tail(s))
         IN IF Head(s) = "/" THEN << <<>> >> \o rest
            ELSE << <<Head(s)>> \o Head(rest) >> \o Tail(rest)

\* PurePosixPath parsing: empty and "." components are dropped, ".." is kept.
Parts(s) == SelectSeq(Components(s), LAMBDA c : c # <<>> /\ c # <<".">>)

\* PurePath.name: the last component, "" when there is none.
PathName(s) == IF Parts(s) = <<>> THEN <<>> ELSE Last(Parts(s))

Root == <<"/">>
DotDot == <<".", ".">>
UploadDir == <<"uploads">>
SessionDir(sid) == << UploadDir, <<sid>> >>

\* PurePath.__truediv__: an absolute right operand replaces the left one.
JoinPath(base, s) ==
    IF s # <<>> /\ Head(s) = "/" THEN <<Root>> \o Parts(s) ELSE base \o Parts(s)

\* ------------------------------------------------------------ filesystem
\* The kernel's resolution of a path relative to the working directory.
RECURSIVE ResolveFrom(_, _)
ResolveFrom(stack, comps) ==
    IF comps = <<>> THEN stack
    ELSE LET c == Head(comps)
         IN IF c # DotDot THEN ResolveFrom(Append(stack, c), Tail(comps))
            ELSE IF stack = <<>> \/ Last(stack) = DotDot
                 THEN ResolveFrom(Append(stack, c), Tail(comps))
            ELSE IF stack = <<Root>> THEN ResolveFrom(stack, Tail(comps))
            ELSE ResolveFrom(Front(stack), Tail(comps))
Resolve(p) == ResolveFrom(<<>>, p)

IsDir(p) ==
    \/ p \in { <<>>, <<Root>>, <<UploadDir>> }
    \/ p # <<>> /\ \A i \in 1..Len(p) : p[i] = DotDot
    \/ \E sid \in dirs : p = SessionDir(sid)
Exists(p) == IsDir(Resolve(p)) \/ Resolve(p) \in disk
\* open(path, "wb"): "dir" (IsADirectoryError), "noent" (FileNotFoundError) or "ok".
OpenForWrite(p) ==
    LET rp == Resolve(p)
    IN IF IsDir(rp) THEN "dir"
       ELSE IF ~IsDir(Front(rp)) THEN "noent"
       ELSE "ok"
Under(p, sid) == Len(p) > 2 /\ SubSeq(p, 1, 2) = SessionDir(sid)

\* ---------------------------------------------------------------- tables
get_user_by_username(name) == { u \in users : u.username = name }
get_user_by_api_key(k) == { u \in users : u.api_key = k }
get_session(sid) == { s \in sessions : s.id = sid }

\* uuid4 values are distinct by construction: request r draws user id
\* 100 + r and api key 200 + r; a message id is the pair (request, role); a
\* session_files id is the inserting request.
NewUserId(r) == 100 + r
NewApiKey(r) == 200 + r

\* INSERT INTO users: the UNIQUE(username) / UNIQUE(api_key) / PRIMARY KEY
\* constraints make the statement raise instead of inserting.
UserInsertAllowed(row) ==
    \A u \in users : u.username # row.username /\ u.api_key # row.api_key /\ u.id # row.id

\* ORDER BY updated_at DESC
RECURSIVE SortDesc(_)
SortDesc(S) ==
    IF S = {} THEN <<>>
    ELSE LET m == CHOOSE x \in S : \A y \in S : y.updated_at <= x.updated_at
         IN <<m>> \o SortDesc(S \ {m})
get_user_sessions(uid) == SortDesc({ s \in sessions : s.user_id = uid })

\* DELETE FROM sessions WHERE id = sid, with the ON DELETE CASCADE of
\* messages.session_id and session_files.session_id.
Cascade(rows, sid) == { x \in rows : x.session_id # sid }

\* INSERT ... ON CONFLICT (session_id, filename) DO UPDATE SET path, uploaded_at
UpsertKeepOld(rows, new) ==
    IF \E x \in rows : x.session_id = new.session_id /\ x.filename = new.filename
    THEN rows ELSE rows \cup {new}
Upsert(rows, new) ==
    IF \E x \in rows : x.session_id = new.session_id /\ x.filename = new.filename
    THEN { IF x.session_id = new.session_id /\ x.filename = new.filename
           THEN [x EXCEPT !.path = new.path, !.uploaded_at = new.uploaded_at]
           ELSE x : x \in rows }
    ELSE rows \cup {new}

Touch(rows, sid, t) ==
    { IF s.id = sid THEN [s EXCEPT !.updated_at = t] ELSE s : s \in rows }

\* ----------------------------------------------------- POST /auth/register
StartRegister(r) ==
    /\ r \in 1..RegReqs /\ req[r].kind = "idle"
    /\ \E name \in Usernames :
         req' = [req EXCEPT ![r] = [Idle EXCEPT !.kind = "register", !.pc = "lookup",
                                                !.uname = name]]
    /\ UNCHANGED <<users, sessions, messages, session_files, disk, dirs, clock>>

\* main.py 91-94: SELECT by username; 400 when a row came back.
RegisterLookup(r) ==
    /\ req[r].kind = "register" /\ req[r].pc = "lookup"
    /\ req' = [req EXCEPT ![r] =
                 IF get_user_by_username(req[r].uname) # {}
                 THEN Answer(@, 400)
                 ELSE [@ EXCEPT !.pc = "insert_user", !.key = NewApiKey(r)]]
    /\ UNCHANGED <<users, sessions, messages, session_files, disk, dirs, clock>>

\* main.py 95-101, database.py 141-148: INSERT; a constraint violation is not
\* caught by the handler and surfaces as a 500.
RegisterInsert(r) ==
    /\ req[r].kind = "register" /\ req[r].pc = "insert_user"
    /\ LET row == [id |-> NewUserId(r), username |-> req[r].uname, api_key |-> req[r].key]
       IN IF UserInsertAllowed(row)
          THEN /\ users' = users \cup {row}
               /\ req' = [req EXCEPT ![r] = [Answer(@, 200) EXCEPT !.user = row.id, !.created = 1]]
          ELSE /\ users' = users
               /\ req' = [req EXCEPT ![r] = Answer(@, 500)]
    /\ UNCHANGED <<sessions, messages, session_files, disk, dirs, clock>>

\* ------------------------------------------------ session-scoped endpoints
ApiKinds == {"delete_session", "get_messages", "upload", "list_files", "delete_file", "chat"}

FirstPc(kind) ==
    CASE kind = "delete_session" -> "del_db"
      [] kind = "get_messages"   -> "sel_msgs"
      [] kind = "upload"         -> "mkdir"
      [] kind = "list_files"     -> "sel_files"
      [] kind = "delete_file"    -> "unlink"
      [] kind = "chat"           -> "history"

\* A request arrives: slot 1 carries the owner's request (key 101, session
\* s1), every other slot an unauthorised one: an unknown key, another user's
\* key, or the owner's key with a session id that does not exist.
Unauthorised == { <<BadKey, "s1">>, <<102, "s1">>, <<101, NoSuchSession>> }
StartApi(r) ==
    /\ r \in 1..AuthReqs /\ req[r].kind = "idle"
    /\ \E kind \in ApiKinds, a \in (IF r = 1 THEN { <<101, "s1">> } ELSE Unauthorised) :
         req' = [req EXCEPT ![r] = [Idle EXCEPT !.kind = kind, !.pc = "auth", !.key = a[1],
                                                !.sid = a[2], !.fname = <<"a">>]]
    /\ UNCHANGED <<users, sessions, messages, session_files, disk, dirs, clock>>

\* The owner's chat requests on session s1.
StartChat(r) ==
    /\ r \in 1..ChatReqs /\ req[r].kind = "idle"
    /\ req' = [req EXCEPT ![r] = [Idle EXCEPT !.kind = "chat", !.pc = "auth", !.key = 101,
                                               !.sid = "s1"]]
    /\ UNCHANGED <<users, sessions, messages, session_files, disk, dirs, clock>>

\* The owner's upload, delete-file and delete-session requests on session s1.
\* The {filename} segment of the delete-file route (main.py 184) matches no
\* "/", so a delete-file request that reaches its handler carries none.
StartFiles(r) ==
    /\ r \in 1..FileReqs /\ req[r].kind = "idle"
    /\ \E kind \in {"upload", "delete_file", "delete_session"}, name \in UploadNames :
         /\ kind = "delete_session" => name = <<"a">>
         /\ kind = "delete_file" => \A i \in 1..Len(name) : name[i] # "/"
         /\ req' = [req EXCEPT ![r] = [Idle EXCEPT !.kind = kind, !.pc = "auth", !.key = 101,
                                                    !.sid = "s1", !.fname = name]]
    /\ UNCHANGED <<users, sessions, messages, session_files, disk, dirs, clock>>

\* An upload with any client-supplied filename (slot 1); the owner's delete
\* of the same session runs in the last slot.
StartUploadAny(r) ==
    /\ r = 1 /\ req[r].kind = "idle"
    /\ \E name \in Filenames :
         req' = [req EXCEPT ![r] = [Idle EXCEPT !.kind = "upload", !.pc = "auth", !.key = 101,
                                                !.sid = "s1", !.fname = name]]
    /\ UNCHANGED <<users, sessions, messages, session_files, disk, dirs, clock>>

StartDeleteSession(r) ==
    /\ r = DeleteSlot /\ req[r].kind = "idle"
    /\ req' = [req EXCEPT ![r] = [Idle EXCEPT !.kind = "delete_session", !.pc = "auth",
                                               !.key = 101, !.sid = "s1"]]
    /\ UNCHANGED <<users, sessions, messages, session_files, disk, dirs, clock>>

\* verify_user (main.py 79-83): SELECT by api_key, 401 when no row.
VerifyUser(r) ==
    /\ req[r].pc = "auth"
    /\ LET rows == get_user_by_api_key(req[r].key)
       IN req' = [req EXCEPT ![r] =
                    IF rows = {} THEN Answer(@, 401)
                    ELSE [@ EXCEPT !.pc = "session", !.user = (CHOOSE u \in rows : TRUE).id]]
    /\ UNCHANGED <<users, sessions, messages, session_files, disk, dirs, clock>>

\* `if not session or session["user_id"] != user["id"]` (main.py 130, 144, 156,
\* 179, 188, 203)
OwnedAnyUser(rows, uid) == rows # {}
Owned(rows, uid) == rows # {} /\ \A s \in rows : s.user_id = uid

\* get_session followed by the ownership test: 404 when it fails.
SessionCheck(r) ==
    /\ req[r].pc = "session"
    /\ req' = [req EXCEPT ![r] =
                 IF Owned(get_session(req[r].sid), req[r].user)
                 THEN [@ EXCEPT !.pc = FirstPc(req[r].kind)]
                 ELSE Answer(@, 404)]
    /\ UNCHANGED <<users, sessions, messages, session_files, disk, dirs, clock>>

\* delete_session, main.py 132: DELETE FROM sessions (cascading).
DeleteSessionDb(r) ==
    /\ req[r].pc = "del_db"
    /\ sessions' = { s \in sessions : s.id # req[r].sid }
    /\ messages' = Cascade(messages, req[r].sid)
    /\ session_files' = Cascade(session_files, req[r].sid)
    /\ req' = [req EXCEPT ![r].pc = "del_dir"]
    /\ UNCHANGED <<users, disk, dirs, clock>>

\* delete_session, main.py 134-138: rmtree of the upload directory, then 200;
\* rmtree of a path that is a regular file raises (500).
DeleteSessionDir(r) ==
    /\ req[r].pc = "del_dir"
    /\ IF req[r].sid \in dirs
       THEN /\ disk' = { p \in disk : ~Under(p, req[r].sid) }
            /\ dirs' = dirs \ {req[r].sid}
       ELSE UNCHANGED <<disk, dirs>>
    /\ req' = [req EXCEPT ![r] =
                 Answer(@, IF req[r].sid \notin dirs /\ SessionDir(req[r].sid) \in disk
                           THEN 500 ELSE 200)]
    /\ UNCHANGED <<users, sessions, messages, session_files, clock>>

\* get_messages, main.py 146-147.
GetMessages(r) ==
    /\ req[r].pc = "sel_msgs"
    /\ req' = [req EXCEPT ![r] = Answer(@, 200)]
    /\ UNCHANGED <<users, sessions, messages, session_files, disk, dirs, clock>>

\* list_session_files, main.py 181-182.
ListFiles(r) ==
    /\ req[r].pc = "sel_files"
    /\ req' = [req EXCEPT ![r] = Answer(@, 200)]
    /\ UNCHANGED <<users, sessions, messages, session_files, disk, dirs, clock>>

\* upload_file, main.py 159-166: mkdir(exist_ok=True), the sanitised name and
\* the target path; the handler then awaits file.read().  mkdir of a path
\* that is a regular file raises (500).
UploadMkdir(r) ==
    /\ req[r].pc = "mkdir"
    /\ IF SessionDir(req[r].sid) \in disk
       THEN /\ dirs' = dirs
            /\ req' = [req EXCEPT ![r] = Answer(@, 500)]
       ELSE /\ dirs' = dirs \cup {req[r].sid}
            /\ LET safe == PathName(req[r].fname)
               IN req' = [req EXCEPT ![r] = [@ EXCEPT !.pc = "write", !.safe = safe,
                                               !.path = JoinPath(SessionDir(req[r].sid), safe)]]
    /\ UNCHANGED <<users, sessions, messages, session_files, disk, clock>>

\* upload_file, main.py 167-168: open(file_path, "wb") and write; an OSError
\* is not caught (500).
UploadWrite(r) ==
    /\ req[r].pc = "write"
    /\ IF OpenForWrite(req[r].path) = "ok"
       THEN /\ disk' = disk \cup {Resolve(req[r].path)}
            /\ req' = [req EXCEPT ![r] = [@ EXCEPT !.pc = "up_stamp",
                                                    !.wrote = @ \cup {Resolve(req[r].path)}]]
       ELSE /\ disk' = disk
            /\ req' = [req EXCEPT ![r] = Answer(@, 500)]
    /\ UNCHANGED <<users, sessions, messages, session_files, dirs, clock>>

\* add_session_file, database.py 222-230: the connection is acquired, then
\* _now() is read for the statement's uploaded_at.
UploadStamp(r) ==
    /\ req[r].pc = "up_stamp"
    /\ clock' = clock + 1
    /\ req' = [req EXCEPT ![r] = [@ EXCEPT !.pc = "upsert", !.stamp = clock + 1]]
    /\ UNCHANGED <<users, sessions, messages, session_files, disk, dirs>>

\* add_session_file, database.py 225-231: the upsert; the foreign key on
\* session_id makes it raise when the session row is gone (500).
UploadUpsert(r) ==
    /\ req[r].pc = "upsert"
    /\ IF get_session(req[r].sid) = {}
       THEN /\ session_files' = session_files
            /\ req' = [req EXCEPT ![r] = Answer(@, 500)]
       ELSE /\ session_files' = Upsert(session_files,
                   [id |-> r, session_id |-> req[r].sid, filename |-> req[r].safe,
                    path |-> req[r].path, uploaded_at |-> req[r].stamp])
            /\ req' = [req EXCEPT ![r] = Answer(@, 200)]
    /\ UNCHANGED <<users, sessions, messages, disk, dirs, clock>>

\* delete_file, main.py 190-192: unlink when the path exists; unlink of a
\* directory raises (500).
DeleteFileUnlink(r) ==
    /\ req[r].pc = "unlink"
    /\ LET p == JoinPath(SessionDir(req[r].sid), req[r].fname)
       IN IF ~Exists(p)
          THEN /\ disk' = disk
               /\ req' = [req EXCEPT ![r].pc = "del_row"]
          ELSE IF IsDir(Resolve(p))
          THEN /\ disk' = disk
               /\ req' = [req EXCEPT ![r] = Answer(@, 500)]
          ELSE /\ disk' = disk \ {Resolve(p)}
               /\ req' = [req EXCEPT ![r].pc = "del_row"]
    /\ UNCHANGED <<users, sessions, messages, session_files, dirs, clock>>

\* delete_file, main.py 193-194, database.py 240-245.
DeleteFileRow(r) ==
    /\ req[r].pc = "del_row"
    /\ session_files' = { f \in session_files :
                            ~(f.session_id = req[r].sid /\ f.filename = req[r].fname) }
    /\ req' = [req EXCEPT ![r] = Answer(@, 200)]
    /\ UNCHANGED <<users, sessions, messages, disk, dirs, clock>>

\* ------------------------------------------------------- POST /chat/stream
TokenEvent(c) == [type |-> "token", content |-> c]
DoneEvent(full) == [type |-> "done", content |-> full]
ErrorEvent == [type |-> "error", content |-> <<"!">>]

\* chat_stream, main.py 207: the history SELECT.
ChatHistory(r) ==
    /\ req[r].pc = "history"
    /\ req' = [req EXCEPT ![r].pc = "files"]
    /\ UNCHANGED <<users, sessions, messages, session_files, disk, dirs, clock>>

\* chat_stream, main.py 208: the files SELECT.
ChatFiles(r) ==
    /\ req[r].pc = "files"
    /\ req' = [req EXCEPT ![r].pc = "context"]
    /\ UNCHANGED <<users, sessions, messages, session_files, disk, dirs, clock>>

\* chat_stream, main.py 211-222: the file context is read from disk (errors
\* swallowed, nothing written), then add_message("user") reads _now().
ChatContext(r) ==
    /\ req[r].pc = "context"
    /\ clock' = clock + 1
    /\ req' = [req EXCEPT ![r] = [@ EXCEPT !.pc = "insert", !.role = "user",
                 !.content = UserText, !.stamp = clock + 1]]
    /\ UNCHANGED <<users, sessions, messages, session_files, disk, dirs>>

\* What an exception does to the caller of add_message: before the response
\* has started it is a 500; inside generate() it is caught (main.py 244-246)
\* and reported as a terminal error event.
RaiseSwallowed(q) ==
    IF q.kind = "chat" /\ q.role = "assistant"
    THEN [q EXCEPT !.pc = "done", !.events = Append(@, DoneEvent(q.full))]
    ELSE Answer(q, 500)
Raise(q) ==
    IF q.kind = "chat" /\ q.role = "assistant"
    THEN [q EXCEPT !.pc = "done", !.events = Append(@, ErrorEvent)]
    ELSE Answer(q, 500)

\* What the caller does once add_message has returned: the chat handler
\* returns the StreamingResponse after the user's message (main.py 248), and
\* generate() yields the done event after the assistant's (main.py 241-242).
ReturnedDoneLast(q) ==
    IF q.kind = "chat"
    THEN IF q.role = "user" THEN [q EXCEPT !.status = 200, !.pc = "agent"]
         ELSE [q EXCEPT !.pc = "done",
                        !.events = Append(@, DoneEvent(IF q.full = <<>> THEN <<>> ELSE <<Last(q.full)>>))]
    ELSE Answer(q, 200)
Returned(q) ==
    IF q.kind = "chat"
    THEN IF q.role = "user" THEN [q EXCEPT !.status = 200, !.pc = "agent"]
         ELSE [q EXCEPT !.pc = "done", !.events = Append(@, DoneEvent(q.full))]
    ELSE Answer(q, 200)

\* add_message, database.py 204-207: the INSERT, stamped with the time read
\* before it was sent.  It raises on a storage failure and on the foreign key
\* when the session row is gone.
MessageInsert(r) ==
    /\ req[r].pc = "insert"
    /\ \E fail \in BOOLEAN :
         IF fail \/ get_session(req[r].sid) = {}
         THEN /\ messages' = messages
              /\ req' = [req EXCEPT ![r] = Raise(@)]
         ELSE /\ messages' = messages \cup
                    { [id |-> <<r, req[r].role>>, session_id |-> req[r].sid,
                       role |-> req[r].role, content |-> req[r].content,
                       created_at |-> req[r].stamp] }
              /\ req' = [req EXCEPT ![r] = [@ EXCEPT !.pc = "touch_stamp",
                           !.asst = IF req[r].role = "assistant" THEN @ + 1 ELSE @,
                           !.saved = IF req[r].role = "assistant" THEN req[r].content ELSE @]]
    /\ UNCHANGED <<users, sessions, session_files, disk, dirs, clock>>

\* add_message, database.py 208 -> touch_session, 196: _now() is read when
\* touch_session is called, before its UPDATE is sent.
TouchStamp(r) ==
    /\ req[r].pc = "touch_stamp"
    /\ clock' = clock + 1
    /\ req' = [req EXCEPT ![r] = [@ EXCEPT !.pc = "touch", !.stamp = clock + 1]]
    /\ UNCHANGED <<users, sessions, messages, session_files, disk, dirs>>

\* touch_session, database.py 194-197: the UPDATE (no row is no error); it
\* raises on a storage failure.
TouchExec(r) ==
    /\ req[r].pc = "touch"
    /\ \E fail \in BOOLEAN :
         IF fail
         THEN /\ sessions' = sessions
              /\ req' = [req EXCEPT ![r] = Raise(@)]
         ELSE /\ sessions' = Touch(sessions, req[r].sid, req[r].stamp)
              /\ req' = [req EXCEPT ![r] = Returned(@)]
    /\ UNCHANGED <<users, messages, session_files, disk, dirs, clock>>

\* generate(), main.py 228-236: the agent produces one more chunk.
AgentChunk(r) ==
    /\ req[r].pc = "agent" /\ req[r].chunks < MaxChunks
    /\ \E c \in Chunks :
         req' = [req EXCEPT ![r] = [@ EXCEPT !.full = @ \o c, !.chunks = @ + 1,
                                              !.events = Append(@, TokenEvent(c))]]
    /\ UNCHANGED <<users, sessions, messages, session_files, disk, dirs, clock>>

\* generate(), main.py 227-233 and 244-246: the agent raises.
AgentRaise(r) ==
    /\ req[r].pc = "agent"
    /\ req' = [req EXCEPT ![r] = [@ EXCEPT !.pc = "done", !.events = Append(@, ErrorEvent)]]
    /\ UNCHANGED <<users, sessions, messages, session_files, disk, dirs, clock>>

\* generate(), main.py 239: the agent is exhausted; add_message("assistant")
\* reads _now().
AgentEnd(r) ==
    /\ req[r].pc = "agent"
    /\ clock' = clock + 1
    /\ req' = [req EXCEPT ![r] = [@ EXCEPT !.pc = "insert", !.role = "assistant",
                                            !.content = req[r].full, !.stamp = clock + 1]]
    /\ UNCHANGED <<users, sessions, messages, session_files, disk, dirs>>

\* ------------------------------------------------- data-access layer calls
NewSid(r) == <<"n1", "n2", "n3", "n4", "n5", "n6">>[r]

\* A direct call of DatabaseManager.add_message (database.py 201-207).
StartAddMessage(r) ==
    /\ r \in 1..DalReqs /\ req[r].kind = "idle"
    /\ clock' = clock + 1
    /\ \E s \in InitSessions :
         req' = [req EXCEPT ![r] = [Idle EXCEPT !.kind = "add_message", !.pc = "insert",
                    !.sid = s.id, !.role = "user", !.content = UserText, !.stamp = clock + 1]]
    /\ UNCHANGED <<users, sessions, messages, session_files, disk, dirs>>

\* A direct call of DatabaseManager.create_session (database.py 167-170).
StartCreateSession(r) ==
    /\ r \in 1..DalReqs /\ req[r].kind = "idle"
    /\ clock' = clock + 1
    /\ \E u \in InitUsers :
         req' = [req EXCEPT ![r] = [Idle EXCEPT !.kind = "create_session", !.pc = "insert_session",
                    !.sid = NewSid(r), !.user = u.id, !.stamp = clock + 1]]
    /\ UNCHANGED <<users, sessions, messages, session_files, disk, dirs>>

\* create_session, database.py 171-175.
CreateSessionInsert(r) ==
    /\ req[r].pc = "insert_session"
    /\ sessions' = sessions \cup { [id |-> req[r].sid, user_id |-> req[r].user,
                                    created_at |-> req[r].stamp, updated_at |-> req[r].stamp] }
    /\ req' = [req EXCEPT ![r] = Answer(@, 200)]
    /\ UNCHANGED <<users, messages, session_files, disk, dirs, clock>>

\* --------------------------------------------------------------- initial
Init ==
    /\ users = InitUsers
    /\ sessions = InitSessions
    /\ messages = {}
    /\ session_files = {}
    /\ disk = {}
    /\ dirs = {}
    /\ clock = InitClock
    /\ req = [r \in Reqs |-> Idle]

\* ---------------------------------------------------------- specifications
NextReg ==
    \/ \E r \in Reqs : StartRegister(r)
    \/ \E r \in Reqs : RegisterLookup(r)
    \/ \E r \in Reqs : RegisterInsert(r)

SpecReg == Init /\ [][NextReg]_vars

AuthStep ==
    \/ \E r \in Reqs : VerifyUser(r)
    \/ \E r \in Reqs : SessionCheck(r)

DeleteSessionStep ==
    \/ \E r \in Reqs : DeleteSessionDb(r)
    \/ \E r \in Reqs : DeleteSessionDir(r)

UploadStep ==
    \/ \E r \in Reqs : UploadMkdir(r)
    \/ \E r \in Reqs : UploadWrite(r)
    \/ \E r \in Reqs : UploadStamp(r)
    \/ \E r \in Reqs : UploadUpsert(r)

DeleteFileStep ==
    \/ \E r \in Reqs : DeleteFileUnlink(r)
    \/ \E r \in Reqs : DeleteFileRow(r)

AddMessageStep ==
    \/ \E r \in Reqs : MessageInsert(r)
    \/ \E r \in Reqs : TouchStamp(r)
    \/ \E r \in Reqs : TouchExec(r)

ChatStep ==
    \/ \E r \in Reqs : ChatHistory(r)
    \/ \E r \in Reqs : ChatFiles(r)
    \/ \E r \in Reqs : ChatContext(r)
    \/ \E r \in Reqs : AgentChunk(r)
    \/ \E r \in Reqs : AgentRaise(r)
    \/ \E r \in Reqs : AgentEnd(r)
    \/ AddMessageStep

\* Every session-scoped endpoint.
Next ==
    \/ \E r \in Reqs : StartApi(r)
    \/ AuthStep
    \/ DeleteSessionStep
    \/ \E r \in Reqs : GetMessages(r)
    \/ \E r \in Reqs : ListFiles(r)
    \/ UploadStep
    \/ DeleteFileStep
    \/ ChatStep

Spec == Init /\ [][Next]_vars

\* Chat streams beside each other and beside the deletion of their session.
NextChat ==
    \/ \E r \in Reqs : StartChat(r)
    \/ \E r \in Reqs : StartDeleteSession(r)
    \/ AuthStep
    \/ DeleteSessionStep
    \/ ChatStep

SpecChat == Init /\ [][NextChat]_vars

\* Uploads, file removals and the deletion of their session.
NextFiles ==
    \/ \E r \in Reqs : StartFiles(r)
    \/ AuthStep
    \/ DeleteSessionStep
    \/ UploadStep
    \/ DeleteFileStep

SpecFiles == Init /\ [][NextFiles]_vars

\* One upload of an arbitrary filename beside the deletion of its session.
NextName ==
    \/ \E r \in Reqs : StartUploadAny(r)
    \/ \E r \in Reqs : StartDeleteSession(r)
    \/ AuthStep
    \/ DeleteSessionStep
    \/ UploadStep

SpecName == Init /\ [][NextName]_vars

NextDal ==
    \/ \E r \in Reqs : StartAddMessage(r)
    \/ \E r \in Reqs : StartCreateSession(r)
    \/ \E r \in Reqs : CreateSessionInsert(r)
    \/ \E r \in Reqs : MessageInsert(r)
    \/ \E r \in Reqs : TouchStamp(r)
    \/ \E r \in Reqs : TouchExec(r)

SpecDal == Init /\ [][NextDal]_vars

\* ====================================================================== C1
KeyUser(k) == IF get_user_by_api_key(k) = {} THEN NoUser
              ELSE (CHOOSE u \in get_user_by_api_key(k) : TRUE).id
\* The session id names no session the key's user has ever owned (sessions are
\* only ever removed while the session-scoped endpoints run).
NotOwner(k, sid) == \A s \in InitSessions : s.id = sid => s.user_id # KeyUser(k)
StepOf(r) == req'[r] # req[r]

\* C1: a session-scoped request whose API key resolves to no user is answered
\* 401, one whose key resolves to a user who does not own the session is
\* answered 404 (the answer for a session id that does not exist), and no step
\* of either creates, changes or removes a database row, a file or a directory.
C1_UnauthorisedRejectedWithoutEffect ==
    /\ [](\A r \in Reqs : req[r].kind \in ApiKinds /\ req[r].pc = "done" =>
            /\ KeyUser(req[r].key) = NoUser => req[r].status = 401
            /\ KeyUser(req[r].key) # NoUser /\ NotOwner(req[r].key, req[r].sid)
                  => req[r].status = 404)
    /\ [][\A r \in Reqs :
            /\ StepOf(r)
            /\ req[r].kind \in ApiKinds
            /\ KeyUser(req[r].key) = NoUser \/ NotOwner(req[r].key, req[r].sid)
            => /\ UNCHANGED <<users, sessions, messages, session_files, disk, dirs>>
               /\ req'[r].pc \in {"session", "done"}]_vars

\* Another user's request for s1 was answered 404 while s1 existed and the
\* owner's own request had already written to it.
C1_Witness ==
    \E r \in Reqs :
        /\ req[r].kind \in ApiKinds /\ req[r].pc = "done"
        /\ req[r].key = 102 /\ req[r].sid = "s1" /\ req[r].status = 404
        /\ get_session("s1") # {}
        /\ messages # {} \/ disk # {}

\* ====================================================================== C2
RegDone(r) == req[r].kind = "register" /\ req[r].pc = "done"
FreshName(name) == \A u \in InitUsers : u.username # name

\* C2: of the register requests for one (not yet taken) username exactly one
\* creates a user and is answered 200 with an API key, every other one is
\* answered 400 and creates no user, and no two users share a username.
C2_ExactlyOneCreatesOthers400 ==
    /\ \A r \in Reqs : RegDone(r) =>
          \/ req[r].status = 200 /\ req[r].created = 1
          \/ req[r].status = 400 /\ req[r].created = 0
    /\ \A r \in Reqs : RegDone(r) /\ FreshName(req[r].uname) =>
          Cardinality({ q \in Reqs : RegDone(q) /\ req[q].uname = req[r].uname
                                      /\ req[q].created = 1 }) = 1
    /\ \A u, v \in users : u.username = v.username => u = v

\* ====================================================================== C3
IsChat(r) == req[r].kind = "chat"
Terminal(e) == e.type \in {"done", "error"}
RECURSIVE ConcatTokens(_)
ConcatTokens(ev) ==
    IF ev = <<>> THEN <<>>
    ELSE (IF Head(ev).type = "token" THEN Head(ev).content ELSE <<>>) \o ConcatTokens(Tail(ev))
EndsWith(r, type) == req[r].events # <<>> /\ Last(req[r].events).type = type

\* C3: a started chat stream emits token events and then exactly one terminal
\* event, done or error, after which it emits nothing: a terminal event is
\* always the last event and the stream has ended when there is one, an ended
\* stream has one; and a done event carries the concatenation, in emission
\* order, of the contents of the stream's token events.
C3_TokensThenOneTerminal ==
    \A r \in Reqs : IsChat(r) =>
        LET ev == req[r].events
        IN /\ \A i \in 1..Len(ev) : Terminal(ev[i]) => i = Len(ev) /\ req[r].pc = "done"
           /\ \A i \in 1..Len(ev) : ~Terminal(ev[i]) => ev[i].type = "token"
           /\ ev # <<>> => req[r].status = 200
           /\ req[r].pc = "done" /\ req[r].status = 200 => ev # <<>> /\ Terminal(Last(ev))
           /\ EndsWith(r, "done") => Last(ev).content = ConcatTokens(ev)

\* A stream of two different tokens ended with done.
C3_Witness ==
    \E r \in Reqs :
        /\ IsChat(r) /\ EndsWith(r, "done") /\ Len(req[r].events) = 3
        /\ req[r].events[1].content # req[r].events[2].content

\* ====================================================================== C4
AssistantRows(r) == { m \in messages : m.id = <<r, "assistant">> }

\* C4: in every state in which a chat stream has emitted its done event, the
\* request has inserted exactly one assistant message, with the done event's
\* content, and that row is the request's only assistant row in the session's
\* messages for as long as the session exists.
C4_DoneAfterOneAssistantMessage ==
    \A r \in Reqs : IsChat(r) /\ EndsWith(r, "done") =>
        /\ req[r].asst = 1
        /\ req[r].saved = Last(req[r].events).content
        /\ get_session(req[r].sid) # {} =>
              /\ Cardinality(AssistantRows(r)) = 1
              /\ \A m \in AssistantRows(r) :
                    /\ m.session_id = req[r].sid /\ m.role = "assistant"
                    /\ m.content = Last(req[r].events).content

\* A done event of a non-empty answer whose assistant row is in the table.
C4_Witness ==
    \E r \in Reqs :
        /\ IsChat(r) /\ EndsWith(r, "done") /\ Last(req[r].events).content # <<>>
        /\ AssistantRows(r) # {}

\* ====================================================================== C5
\* C5: in every state in which a chat stream has ended with an error event,
\* the session's messages hold no assistant message of that request.
C5_ErrorMeansNoAssistantMessage ==
    \A r \in Reqs : IsChat(r) /\ EndsWith(r, "error") => AssistantRows(r) = {}

\* ====================================================================== C6
DeleteReturned(sid) ==
    \E r \in Reqs : /\ req[r].kind = "delete_session" /\ req[r].sid = sid
                    /\ req[r].pc = "done" /\ req[r].status = 200

\* C6: in every state after a DELETE of a session by its owner has returned
\* success, no message row and no session_files row references the session and
\* no file exists under the session's upload directory.
C6_DeletedSessionLeavesNothing ==
    \A s \in InitSessions : DeleteReturned(s.id) =>
        /\ \A m \in messages : m.session_id # s.id
        /\ \A f \in session_files : f.session_id # s.id
        /\ \A p \in disk : ~Under(p, s.id)

\* ====================================================================== C8
UpsertStepOf(r) ==
    /\ req[r].kind = "upload" /\ req[r].pc = "upsert"
    /\ req'[r].pc = "done" /\ req'[r].status = 200
Carries(f, q) ==
    /\ f.session_id = q.sid /\ f.filename = q.safe
    /\ f.path = q.path /\ f.uploaded_at = q.stamp

\* C8: session_files never holds two records with the same session and
\* filename; right after an upsert has been executed the one record of its
\* (session, filename) carries that upsert's path and upload time; and a record
\* appears or changes only by an upsert of its (session, filename) being
\* executed, so a record always carries the values of the last one.
C8_OneRecordPerNameLastUpsertWins ==
    /\ [](\A f, g \in session_files :
            f.session_id = g.session_id /\ f.filename = g.filename => f = g)
    /\ [][\A r \in Reqs : UpsertStepOf(r) =>
            /\ \E f \in session_files' : Carries(f, req[r])
            /\ \A f \in session_files' :
                  f.session_id = req[r].sid /\ f.filename = req[r].safe => Carries(f, req[r])]_vars
    /\ [][\A f \in session_files' : f \notin session_files =>
            \E r \in Reqs : UpsertStepOf(r) /\ Carries(f, req[r])]_vars

\* Two uploads whose names differ but sanitise to the same filename have both
\* been executed; the one record is the first one's row carrying the second
\* one's upload time.
C8_Witness ==
    \E r, q \in Reqs : \E f \in session_files :
        /\ r # q
        /\ req[r].kind = "upload" /\ req[r].pc = "done" /\ req[r].status = 200
        /\ req[q].kind = "upload" /\ req[q].pc = "done" /\ req[q].status = 200
        /\ req[r].fname # req[q].fname /\ req[r].safe = req[q].safe
        /\ f.id = q /\ Carries(f, req[r])
        /\ Cardinality({ g \in session_files : g.filename = req[r].safe }) = 1

\* ====================================================================== C9
\* The filename's basename: its last "/"-separated component other than ""
\* and ".".
HasBasename(name, b) ==
    LET cs == Components(name)
    IN \E i \in 1..Len(cs) :
          /\ cs[i] = b /\ b # <<>> /\ b # <<".">>
          /\ \A j \in (i + 1)..Len(cs) : cs[j] = <<>> \/ cs[j] = <<".">>
NoSeparator(s) == \A i \in 1..Len(s) : s[i] # "/"

\* C9: whatever filename the client supplies, an upload writes at most one
\* path, that path is the direct child of the session's own upload directory
\* named by the filename's basename, and every filename recorded in
\* session_files is free of path separators (and is that basename).
C9_UploadStaysInSessionDirectory ==
    /\ \A r \in Reqs : req[r].kind = "upload" =>
          /\ Cardinality(req[r].wrote) <= 1
          /\ \A p \in req[r].wrote :
                /\ Len(p) = 3 /\ SubSeq(p, 1, 2) = SessionDir(req[r].sid)
                /\ NoSeparator(p[3]) /\ p[3] # DotDot
                /\ HasBasename(req[r].fname, p[3])
    /\ \A p \in disk : \E sid \in dirs : Len(p) = 3 /\ SubSeq(p, 1, 2) = SessionDir(sid)
    /\ \A f \in session_files :
          /\ NoSeparator(f.filename)
          /\ \E r \in Reqs : req[r].kind = "upload" /\ f.session_id = req[r].sid
                             /\ HasBasename(req[r].fname, f.filename)

\* ====================================================================== C7
IsSortedDesc(l) == \A i, j \in 1..Len(l) : i < j => l[i].updated_at >= l[j].updated_at
Range(l) == { l[i] : i \in 1..Len(l) }
SessionOwner(sid) == (CHOOSE s \in sessions : s.id = sid).user_id
AddMessageReturns(r) ==
    /\ req[r].kind = "add_message" /\ req[r].pc = "touch"
    /\ req'[r].pc = "done" /\ req'[r].status = 200
Quiet(r) == \A q \in Reqs \ {r} : ~InFlight(q)

\* C7: get_user_sessions returns exactly the given user's sessions, each once,
\* ordered by updated_at descending; and when add_message on a session returns
\* with no other write in flight, that session is the first of its owner's
\* listing.
C7_ListingOrderedAndTouchedSessionFirst ==
    /\ [](\A u \in InitUsers :
            LET l == get_user_sessions(u.id)
            IN /\ Range(l) = { s \in sessions : s.user_id = u.id }
               /\ Len(l) = Cardinality(Range(l))
               /\ IsSortedDesc(l))
    /\ [][\A r \in Reqs : AddMessageReturns(r) /\ Quiet(r) =>
            get_user_sessions(SessionOwner(req[r].sid))'[1].id = req[r].sid]_vars

\* ===================================================================== C10
AllAddMessageCompleted ==
    /\ \E r \in Reqs : req[r].kind = "add_message"
    /\ \A r \in Reqs : req[r].kind = "add_message" => req[r].pc = "done" /\ req[r].status = 200

\* C10: once every add_message call on a session has completed, the session's
\* updated_at is no earlier than the created_at of any of its messages.
C10_UpdatedAtCoversEveryMessage ==
    AllAddMessageCompleted /\ (\A r \in Reqs : ~InFlight(r)) =>
        \A s \in sessions : \A m \in messages :
            m.session_id = s.id => s.updated_at >= m.created_at

\* ===================================================================== C11
\* The filenames an upload can record: the basenames of the upload names.
StoredNames == { PathName(n) : n \in UploadNames }
\* An upload or delete-file request on (sid, name) has been received and has
\* not been answered.
FileRequestInFlight(sid, name) ==
    \E r \in Reqs : /\ InFlight(r) /\ req[r].sid = sid
                    /\ \/ req[r].kind = "upload" /\ PathName(req[r].fname) = name
                       \/ req[r].kind = "delete_file" /\ req[r].fname = name
RowExists(sid, name) == \E f \in session_files : f.session_id = sid /\ f.filename = name
FileExists(sid, name) == Resolve(JoinPath(SessionDir(sid), name)) \in disk
OnlyFileRequests == \A r \in Reqs : req[r].kind \in {"idle", "upload", "delete_file"}

\* C11: when only upload and delete-file requests have been made on a session,
\* then for each filename, in every state in which no upload or delete-file
\* request on that (session, filename) is in flight, session_files holds a row
\* for the filename if and only if the file exists in the session's upload
\* directory.
C11_DatabaseAndDiskAgreeWhenQuiet ==
    OnlyFileRequests =>
        \A name \in StoredNames :
            ~FileRequestInFlight("s1", name) => (RowExists("s1", name) <=> FileExists("s1", name))

====
